---------------------------- MODULE Spec2Model ----------------------------
(***************************************************************************)
(* Firmware-update engine and boot-commit pipeline of the RISC-V UART      *)
(* bootloader: the Integrity Checker (crc32.c), the Flash Program Manager  *)
(* (flash_write, flash_erase_app, flash_write_header), the QEMU virt flash *)
(* primitives (platform.c), and the Boot Selector and Update Session       *)
(* Controller that drive them.                                             *)
(*                                                                         *)
(* Geometry.  boot.h lays FLASH and APP out in multiples of 64 KiB:        *)
(*   FLASH_BASE 0x80000000 = 0x8000 * 64Ki,  APP_BASE 0x80010000 =         *)
(*   0x8001 * 64Ki,  FLASH_SIZE = 1 * 64Ki,  APP_MAX_SIZE = 7 * 64Ki,      *)
(*   and the 32-bit address space is 0x10000 * 64Ki.                       *)
(* The model keeps these ratios and replaces the 64 KiB unit by Unit       *)
(* bytes, so that the memory is small enough to enumerate.  Data values    *)
(* (bytes, the four header words, the CRC register) keep their width.      *)
(***************************************************************************)
EXTENDS Integers, Sequences, FiniteSets, TLC

(***************************************************************************)
(* Bounds of the model.                                                    *)
(***************************************************************************)
\* bytes standing for one 64 KiB unit of the memory map
Unit == 3
\* payload offsets below MaxFree carry a freely chosen byte and start a chunk
\* of freely chosen length
MaxFree == 2
\* requested sizes 0..MaxSmall are all tried, besides the boundary sizes
MaxSmall == 2
\* largest number of bytes the controller reads as one chunk
MaxChunk == 2
\* number of power-loss resets injected in one behaviour
MaxResets == 1
\* number of direct Flash Program Manager calls that reach a primitive
MaxCalls == 1
\* longest byte sequence of freely chosen bytes given to the checksum
MaxData == 3

(***************************************************************************)
(* boot.h                                                                  *)
(***************************************************************************)
\* 0x5256424C "RVBL"
BOOT_MAGIC == <<21078, 16972>>
FLASH_BASE == 32768 * Unit
APP_BASE == 32769 * Unit
FLASH_SIZE == Unit
APP_MAX_SIZE == 7 * Unit
\* uint32_t / size_t arithmetic on addresses wraps at the address space
AddrSpace == 65536 * Unit
\* sizeof(fw_header_t): four uint32_t fields, no padding
HeaderSize == 16

AppEnd == APP_BASE + APP_MAX_SIZE

\* the part of the address space whose contents the model tracks: the
\* bootloader region, the application partition and the HeaderSize bytes of
\* RAM behind it (a body of APP_MAX_SIZE bytes behind the header ends there)
Mem == FLASH_BASE .. (AppEnd + HeaderSize - 1)

(***************************************************************************)
(* uint32_t values.  A 32-bit word is the pair <<high half, low half>> of  *)
(* its 16-bit halves (0x5256424C is <<0x5256, 0x424C>>), so that all of    *)
(* its 32 bits are kept.                                                   *)
(***************************************************************************)
Half == 65536

ToWord(n) == <<n \div Half, n % Half>>

\* bitwise exclusive or of two naturals
RECURSIVE Xor(_, _)
Xor(a, b) ==
    IF a = 0 THEN b
    ELSE IF b = 0 THEN a
    ELSE ((a + b) % 2) + 2 * Xor(a \div 2, b \div 2)

\* x ^ y
XorW(x, y) == <<Xor(x[1], y[1]), Xor(x[2], y[2])>>

\* x >> k, with p = 2^k
ShrW(x, p) == <<x[1] \div p, (x[2] \div p) + (x[1] % p) * (Half \div p)>>

\* ~x
NotW(x) == <<(Half - 1) - x[1], (Half - 1) - x[2]>>

\* x > n for a natural n
GtW(x, n) ==
    \/ x[1] > n \div Half
    \/ x[1] = n \div Half /\ x[2] > n % Half

\* 0xFFFFFFFF
AllOnes == <<Half - 1, Half - 1>>

(***************************************************************************)
(* crc32.c                                                                 *)
(***************************************************************************)
\* faulty variant: two digits of entry 1 are transposed (0x1DB71046)
crc32_table_typo ==
    <<<<0, 0>>, <<7607, 4166>>, <<15214, 8392>>, <<9945, 12460>>,
      <<30428, 16784>>, <<27499, 20980>>, <<19890, 24920>>, <<20485, 28988>>,
      <<60856, 33568>>, <<61455, 37700>>, <<54998, 41960>>, <<52065, 45964>>,
      <<39780, 49840>>, <<34515, 53972>>, <<40970, 57976>>, <<48573, 61980>>>>

crc32_table ==
    <<<<0, 0>>, <<7607, 4196>>, <<15214, 8392>>, <<9945, 12460>>,
      <<30428, 16784>>, <<27499, 20980>>, <<19890, 24920>>, <<20485, 28988>>,
      <<60856, 33568>>, <<61455, 37700>>, <<54998, 41960>>, <<52065, 45964>>,
      <<39780, 49840>>, <<34515, 53972>>, <<40970, 57976>>, <<48573, 61980>>>>

\* one iteration of the byte loop of the nibble-table version
crc32_nibble_byte(crc, b) ==
    LET c0 == XorW(crc, <<0, b>>)
        c1 == XorW(ShrW(c0, 16), crc32_table[(c0[2] % 16) + 1])
    IN  XorW(ShrW(c1, 16), crc32_table[(c1[2] % 16) + 1])

\* the byte loop of the nibble-table version; st is the pair of the loop
\* variables crc and i
RECURSIVE crc32_nibble_for(_, _)
crc32_nibble_for(st, data) ==
    IF st.i >= Len(data) THEN st.crc
    ELSE crc32_nibble_for(
             [crc |-> crc32_nibble_byte(st.crc, data[st.i + 1]),
              i |-> st.i + 1], data)

crc32_nibble_loop(crc, data) == crc32_nibble_for([crc |-> crc, i |-> 0], data)

\* crc32(), nibble-table version
crc32_nibble(data) == NotW(crc32_nibble_loop(AllOnes, data))

\* faulty variant: the polynomial in its unreflected form, 0x04C11DB7
CRC_POLY_unreflected == <<1217, 7607>>

\* 0xEDB88320
CRC_POLY == <<60856, 33568>>

\* the inner loop "for (j = 0; j < 8; j++)" of the bitwise version
RECURSIVE crc32_bits(_, _)
crc32_bits(crc, j) ==
    IF j >= 8 THEN crc
    ELSE IF crc[2] % 2 = 1
           THEN crc32_bits(XorW(ShrW(crc, 2), CRC_POLY), j + 1)
           ELSE crc32_bits(ShrW(crc, 2), j + 1)

\* the byte loop of the bitwise version; st is the pair of the loop
\* variables crc and i
RECURSIVE crc32_for(_, _)
crc32_for(st, data) ==
    IF st.i >= Len(data) THEN st.crc
    ELSE crc32_for(
             [crc |-> crc32_bits(XorW(st.crc, <<0, data[st.i + 1]>>), 0),
              i |-> st.i + 1], data)

\* faulty variant: the register is initialised again on every call
crc32_loop_restart(crc, data) == crc32_for([crc |-> AllOnes, i |-> 0], data)

\* the byte loop started from register crc
crc32_loop(crc, data) == crc32_for([crc |-> crc, i |-> 0], data)

\* faulty variant: the final complement is missing
crc32_no_complement(data) == crc32_loop(AllOnes, data)

\* crc32(), bitwise version
crc32(data) == NotW(crc32_loop(AllOnes, data))

(***************************************************************************)
(* fw_header_t and its image in memory (RISC-V is little-endian)           *)
(***************************************************************************)
LE32(x) == <<x[2] % 256, x[2] \div 256, x[1] % 256, x[1] \div 256>>

ReadLE32(m, a) == <<m[a + 2] + 256 * m[a + 3], m[a] + 256 * m[a + 1]>>

\* the 16 bytes that flash_write_header hands to the platform primitive
HeaderBytes(h) ==
    LE32(h.magic) \o LE32(h.size) \o LE32(h.crc32) \o LE32(h.version)

\* *(const fw_header_t *)APP_BASE
ReadHeader(m) ==
    [magic   |-> ReadLE32(m, APP_BASE),
     size    |-> ReadLE32(m, APP_BASE + 4),
     crc32   |-> ReadLE32(m, APP_BASE + 8),
     version |-> ReadLE32(m, APP_BASE + 12)]

\* a word that is known to be below 2^31, as a natural
Nat31(x) == x[1] * Half + x[2]

\* the n bytes of memory from address a on
ReadBytes(m, a, n) == [i \in 1 .. n |-> m[a + i - 1]]

\* the body: n bytes behind the header
Body(m, n) == ReadBytes(m, APP_BASE + HeaderSize, n)

(***************************************************************************)
(* platform.c (QEMU virt): flash is plain memory                           *)
(***************************************************************************)
\* a store to address a; addresses outside Mem are not tracked
Store(m, a, v) == IF a \in DOMAIN m THEN [m EXCEPT ![a] = v] ELSE m

\* faulty variant: the destination index is one too low
platform_flash_write_step_low(m, addr, src, i) ==
    Store(m, (addr + i - 1) % AddrSpace, src[i + 1])

\* faulty variant: the source index is dropped, dest[i] = src[0]
platform_flash_write_step_src0(m, addr, src, i) ==
    Store(m, (addr + i) % AddrSpace, src[1])

\* faulty variant: the destination index is dropped, dest[0] = src[i]
platform_flash_write_step_dest0(m, addr, src, i) ==
    Store(m, addr % AddrSpace, src[i + 1])

\* platform_flash_write, iteration i of the loop:  dest[i] = src[i]
platform_flash_write_step(m, addr, src, i) ==
    Store(m, (addr + i) % AddrSpace, src[i + 1])

\* faulty variant: the loop index runs from 1 to size
platform_flash_erase_step_from1(m, addr, i) ==
    Store(m, (addr + i + 1) % AddrSpace, 255)

\* faulty variant: the bytes are cleared to 0x00 instead of 0xFF
platform_flash_erase_step_zero(m, addr, i) ==
    Store(m, (addr + i) % AddrSpace, 0)

\* platform_flash_erase, iteration i of the loop:  dest[i] = 0xFF
platform_flash_erase_step(m, addr, i) ==
    Store(m, (addr + i) % AddrSpace, 255)

\* return value of both primitives
PLATFORM_OK == 0

(***************************************************************************)
(* Flash Program Manager (flash.c part of uart.c)                          *)
(***************************************************************************)
\* faulty variant: the upper comparison is >= instead of >
flash_write_rejects_inclusive(addr, size) ==
    addr < APP_BASE \/ ((addr + size) % AddrSpace) >= (APP_BASE + APP_MAX_SIZE)

\* the guard of flash_write; addr + size is computed in 32-bit unsigned
\* arithmetic, APP_BASE + APP_MAX_SIZE is a constant that does not wrap
flash_write_rejects(addr, size) ==
    addr < APP_BASE \/ ((addr + size) % AddrSpace) > (APP_BASE + APP_MAX_SIZE)

\* faulty variant: only the header is erased
flash_erase_app_header_only == [addr |-> APP_BASE, size |-> HeaderSize]

\* faulty variant: only the body behind the header is erased
flash_erase_app_body_only ==
    [addr |-> APP_BASE + HeaderSize, size |-> APP_MAX_SIZE - HeaderSize]

\* the arguments flash_erase_app passes to platform_flash_erase
flash_erase_app == [addr |-> APP_BASE, size |-> APP_MAX_SIZE]

\* faulty variant: the length is sizeof(header), the size of the pointer
flash_write_header_sizeof_ptr(header) ==
    [addr |-> APP_BASE, src |-> HeaderBytes(header), size |-> 4]

\* the arguments flash_write_header passes to platform_flash_write
flash_write_header(header) ==
    [addr |-> APP_BASE, src |-> HeaderBytes(header), size |-> HeaderSize]

(***************************************************************************)
(* Boot Selector                                                           *)
(***************************************************************************)
\* CheckHeader: TRUE to dispatch to the application, FALSE to fall through
boot_validate(m) ==
    LET h == ReadHeader(m) IN
    IF h.magic # BOOT_MAGIC THEN FALSE
    ELSE IF GtW(h.size, APP_MAX_SIZE) THEN FALSE
    ELSE crc32(Body(m, Nat31(h.size))) = h.crc32

(***************************************************************************)
(* Update Session Controller: the size-request line                        *)
(***************************************************************************)
Digits == <<"0", "1", "2", "3", "4", "5", "6", "7", "8", "9">>

IsDigit(c) == \E d \in 1 .. 10 : Digits[d] = c

DigitVal(c) == (CHOOSE d \in 1 .. 10 : Digits[d] = c) - 1

SendPrefix == <<"S", "E", "N", "D", " ">>

\* longest digit string taken as a size
MaxDigits == 9

RECURSIVE DecimalValue(_, _, _)
DecimalValue(l, i, v) ==
    IF i > Len(l) THEN v
    ELSE DecimalValue(l, i + 1, 10 * v + DigitVal(l[i]))

\* faulty variant: the digits are converted up to the first non-digit, as
\* atoi does
RECURSIVE AtoiValue(_, _, _)
AtoiValue(l, i, v) ==
    IF i > Len(l) \/ ~IsDigit(l[i]) THEN v
    ELSE AtoiValue(l, i + 1, 10 * v + DigitVal(l[i]))

ParseSize_atoi(l) ==
    LET p == Len(SendPrefix) IN
    IF Len(l) <= p \/ SubSeq(l, 1, p) # SendPrefix THEN -1
    ELSE IF Len(l) - p > MaxDigits THEN -1
    ELSE AtoiValue(l, p + 1, 0)

\* the requested size, or -1 for a ProtocolFramingError
ParseSize(l) ==
    LET p == Len(SendPrefix) IN
    IF Len(l) <= p \/ SubSeq(l, 1, p) # SendPrefix THEN -1
    ELSE IF \E i \in (p + 1) .. Len(l) : ~IsDigit(l[i]) THEN -1
    ELSE IF Len(l) - p > MaxDigits THEN -1
    ELSE DecimalValue(l, p + 1, 0)

\* faulty variant: the capacity check is off by one
size_accepted_off_by_one(n) == n <= APP_MAX_SIZE + 1

\* SizeNegotiated: the capacity check
size_accepted(n) == n <= APP_MAX_SIZE

\* Receiving: where the chunk that follows w written bytes goes, the next
\* sequential offset past the header
chunk_addr(w) == APP_BASE + HeaderSize + w

\* version field of the committed header
FW_VERSION == <<0, 1>>

\* Committing: the header assembled from the session
assemble_header(n, reg) ==
    [magic |-> BOOT_MAGIC, size |-> ToWord(n), crc32 |-> NotW(reg),
     version |-> FW_VERSION]

(***************************************************************************)
(* The host and the initial flash                                          *)
(***************************************************************************)
RECURSIVE Decimal(_)
Decimal(n) ==
    IF n < 10 THEN <<Digits[n + 1]>>
    ELSE Decimal(n \div 10) \o <<Digits[(n % 10) + 1]>>

SendLine(n) == SendPrefix \o Decimal(n)

RequestSizes ==
    (0 .. MaxSmall) \cup
    {APP_MAX_SIZE - HeaderSize, APP_MAX_SIZE - HeaderSize + 1,
     APP_MAX_SIZE, APP_MAX_SIZE + 1}

BadLines ==
    {<<>>, SendPrefix, SendPrefix \o <<"1", "x">>, <<"7">>,
     SendPrefix \o <<"1", "0", "0", "0", "0", "0", "0", "0", "0", "0", "0">>,
     SendPrefix \o <<"4", "2", "9", "4", "9", "6", "7", "2", "9", "6">>}

SizeLines == {SendLine(n) : n \in RequestSizes} \cup BadLines

\* byte values the host uses: freely chosen ones, and the one that fills the
\* payload from offset MaxFree on
Bytes == {0, 255}
FillBytes == {90}

\* the values the payload byte at offset k may have
HostBytes(k) == IF k < MaxFree THEN Bytes ELSE FillBytes

\* the lengths of the chunk the host may deliver at payload offset k with
\* left bytes to go: any length up to MaxChunk while the offset is below
\* MaxFree, the longest one from there on
ChunkLens(k, left) ==
    LET most == IF left < MaxChunk THEN left ELSE MaxChunk IN
    IF k < MaxFree THEN 1 .. most ELSE {most}

\* the chunks of c bytes the host may deliver from payload offset k on
HostChunks(k, c) ==
    {ch \in [1 .. c -> Bytes \cup FillBytes] :
        \A i \in 1 .. c : ch[i] \in HostBytes(k + i - 1)}

\* contents of the bootloader region (its code) and of the RAM behind the
\* partition
BootCode == [a \in FLASH_BASE .. (FLASH_BASE + FLASH_SIZE - 1) |-> 19]
RamBytes == [a \in AppEnd .. (AppEnd + HeaderSize - 1) |-> 0]

\* memory with the given bytes at the start of an otherwise erased partition
MakeMem(app) ==
    [a \in Mem |->
        IF a < APP_BASE THEN BootCode[a]
        ELSE IF a >= AppEnd THEN RamBytes[a]
        ELSE IF a - APP_BASE < Len(app) THEN app[a - APP_BASE + 1]
        ELSE 255]

\* header and body of a committed payload
Image(p) == HeaderBytes(assemble_header(Len(p), NotW(crc32(p)))) \o p

InstalledPayload == <<0>>

\* factory-fresh flash, an installed image, and an image whose body is lost
InitFlashes ==
    {[app |-> <<>>, installed |-> FALSE],
     [app |-> Image(InstalledPayload), installed |-> TRUE],
     [app |-> SubSeq(Image(InstalledPayload), 1, HeaderSize),
      installed |-> FALSE]}

(***************************************************************************)
(* State                                                                   *)
(***************************************************************************)
VARIABLES
    mem,        \* contents of the tracked memory
    pc,         \* CheckHeader, Dispatch, or the controller's protocol state
    size,       \* session: negotiated payload size
    written,    \* session: bytes written so far
    acc,        \* session: running checksum register
    io,         \* the platform primitive in progress and its loop index
    out,        \* lines emitted since the last activation byte or boot
    rx,         \* history: payload bytes read in this session, in order
    ops,        \* history: primitive calls of this session (fn, addr, size)
    last,       \* history: the last Flash Program Manager call
    erased,     \* history: an erase completed and no commit was invoked since
    img,        \* history: the payload whose commit was invoked last
    resets,     \* history: number of power losses so far
    line,       \* history: the size-request line read in this session
    prev        \* history: the payload of the update completed before

vars == <<mem, pc, size, written, acc, io, out, rx, ops, last, erased, img,
          resets, line, prev>>

NoIo == [fn |-> "none", addr |-> 0, src |-> <<>>, size |-> 0, i |-> 0]

NoCall == [fn |-> "none", addr |-> 0, size |-> 0, ret |-> 0, prim |-> FALSE]

NoImage == [known |-> FALSE, body |-> <<>>]

Init ==
    /\ \E f \in InitFlashes :
          /\ mem = MakeMem(f.app)
          /\ img = IF f.installed
                     THEN [known |-> TRUE, body |-> InstalledPayload]
                     ELSE NoImage
    /\ pc = "CheckHeader"
    /\ size = 0
    /\ written = 0
    /\ acc = AllOnes
    /\ io = NoIo
    /\ out = <<>>
    /\ rx = <<>>
    /\ ops = <<>>
    /\ last = NoCall
    /\ erased = FALSE
    /\ resets = 0
    /\ line = <<>>
    /\ prev = NoImage

(***************************************************************************)
(* Boot Selector                                                           *)
(***************************************************************************)
\* CheckHeader: dispatch to the application, or fall through to Idle, whose
\* entry action emits the prompt
BootSelector ==
    /\ pc = "CheckHeader"
    /\ IF boot_validate(mem)
         THEN pc' = "Dispatch" /\ out' = out
         ELSE pc' = "Idle" /\ out' = <<"BOOT?">>
    /\ UNCHANGED <<mem, size, written, acc, io, rx, ops, last, erased, img,
                   resets, line, prev>>

(***************************************************************************)
(* Update Session Controller                                               *)
(***************************************************************************)
\* abort of the session: emit an error line and return to Idle (prompt)
Abort ==
    /\ pc' = "Idle"
    /\ out' = out \o <<"ERR", "BOOT?">>
    /\ io' = NoIo

\* Idle: any byte enters update mode; UpdateRequested emits the
\* acknowledgement
IdleRecvByte ==
    /\ pc = "Idle"
    /\ \E c \in Bytes :
          /\ pc' = "UpdateRequested"
          /\ out' = <<"OK">>
          /\ size' = 0
          /\ written' = 0
          /\ acc' = AllOnes
          /\ rx' = <<>>
          /\ ops' = <<>>
          /\ line' = <<>>
    /\ UNCHANGED <<mem, io, last, erased, img, resets, prev>>

\* UpdateRequested: read and parse the size-request line
RecvSizeLine ==
    /\ pc = "UpdateRequested"
    /\ \E l \in SizeLines :
          LET n == ParseSize(l) IN
          /\ line' = l
          /\ IF n = -1
               THEN Abort /\ size' = size
               ELSE /\ pc' = "SizeNegotiated"
                    /\ size' = n
                    /\ UNCHANGED <<out, io>>
    /\ UNCHANGED <<mem, written, acc, rx, ops, last, erased, img, resets,
                   prev>>

\* SizeNegotiated: validate the size; on acceptance enter Erasing and invoke
\* flash_erase_app, which calls platform_flash_erase
ValidateSize ==
    /\ pc = "SizeNegotiated"
    /\ IF ~size_accepted(size)
         THEN Abort /\ UNCHANGED <<ops, last>>
         ELSE LET e == flash_erase_app IN
              /\ pc' = "Erasing"
              /\ io' = [fn |-> "erase", addr |-> e.addr, src |-> <<>>,
                        size |-> e.size, i |-> 0]
              /\ ops' = Append(ops, [fn |-> "erase", addr |-> e.addr,
                                     size |-> e.size])
              /\ last' = [fn |-> "flash_erase_app", addr |-> e.addr,
                          size |-> e.size, ret |-> PLATFORM_OK,
                          prim |-> TRUE]
              /\ out' = out
    /\ UNCHANGED <<mem, size, written, acc, rx, erased, img, resets,
                   line, prev>>

\* one iteration of the loop of platform_flash_erase
EraseStep ==
    /\ pc = "Erasing"
    /\ io.fn = "erase"
    /\ io.i < io.size
    /\ mem' = platform_flash_erase_step(mem, io.addr, io.i)
    /\ io' = [io EXCEPT !.i = io.i + 1]
    /\ UNCHANGED <<pc, size, written, acc, out, rx, ops, last, erased, img,
                   resets, line, prev>>

\* platform_flash_erase returns; emit the ready signal and enter Receiving
EraseDone ==
    /\ pc = "Erasing"
    /\ io.fn = "erase"
    /\ io.i >= io.size
    /\ pc' = "Receiving"
    /\ io' = NoIo
    /\ out' = Append(out, "READY")
    /\ written' = 0
    /\ acc' = AllOnes
    /\ erased' = TRUE
    /\ UNCHANGED <<mem, size, rx, ops, last, img, resets, line, prev>>

\* Receiving: read the next chunk and pass it to flash_write at the next
\* offset past the header
RecvChunk ==
    /\ pc = "Receiving"
    /\ io.fn = "none"
    /\ written < size
    /\ \E c \in ChunkLens(written, size - written) :
          /\ \E ch \in HostChunks(written, c) :
                LET addr == chunk_addr(written) IN
                /\ rx' = rx \o ch
                /\ IF flash_write_rejects(addr, c)
                     THEN /\ Abort
                          /\ last' = [fn |-> "flash_write", addr |-> addr,
                                      size |-> c, ret |-> -1,
                                      prim |-> FALSE]
                          /\ ops' = ops
                     ELSE /\ io' = [fn |-> "write", addr |-> addr,
                                    src |-> ch, size |-> c, i |-> 0]
                          /\ last' = [fn |-> "flash_write", addr |-> addr,
                                      size |-> c, ret |-> PLATFORM_OK,
                                      prim |-> TRUE]
                          /\ ops' = Append(ops, [fn |-> "write",
                                                 addr |-> addr, size |-> c])
                          /\ UNCHANGED <<pc, out>>
    /\ UNCHANGED <<mem, size, written, acc, erased, img, resets,
                   line, prev>>

\* one iteration of the loop of platform_flash_write (chunk or header)
WriteStep ==
    /\ pc \in {"Receiving", "Committing"}
    /\ io.fn = "write"
    /\ io.i < io.size
    /\ mem' = platform_flash_write_step(mem, io.addr, io.src, io.i)
    /\ io' = [io EXCEPT !.i = io.i + 1]
    /\ UNCHANGED <<pc, size, written, acc, out, rx, ops, last, erased, img,
                   resets, line, prev>>

\* flash_write returned 0: fold the chunk into the running checksum
ChunkDone ==
    /\ pc = "Receiving"
    /\ io.fn = "write"
    /\ io.i >= io.size
    /\ written' = written + io.size
    /\ acc' = crc32_loop(acc, io.src)
    /\ io' = NoIo
    /\ UNCHANGED <<mem, pc, size, out, rx, ops, last, erased, img, resets,
                   line, prev>>

\* all size bytes received: enter Committing, assemble the header and
\* invoke flash_write_header
Commit ==
    /\ pc = "Receiving"
    /\ io.fn = "none"
    /\ written >= size
    /\ LET w == flash_write_header(assemble_header(size, acc)) IN
       /\ pc' = "Committing"
       /\ out' = Append(out, "CRC?")
       /\ io' = [fn |-> "write", addr |-> w.addr, src |-> w.src,
                 size |-> w.size, i |-> 0]
       /\ ops' = Append(ops, [fn |-> "commit", addr |-> w.addr,
                              size |-> w.size])
       /\ last' = [fn |-> "flash_write_header", addr |-> w.addr,
                   size |-> w.size, ret |-> PLATFORM_OK, prim |-> TRUE]
    /\ erased' = FALSE
    /\ img' = [known |-> TRUE, body |-> rx]
    /\ UNCHANGED <<mem, size, written, acc, rx, resets, line, prev>>

\* flash_write_header returned 0: enter Rebooting
CommitDone ==
    /\ pc = "Committing"
    /\ io.fn = "write"
    /\ io.i >= io.size
    /\ pc' = "Rebooting"
    /\ out' = Append(out, "OK")
    /\ io' = NoIo
    /\ UNCHANGED <<mem, size, written, acc, rx, ops, last, erased, img,
                   resets, line, prev>>

\* Rebooting: emit the completion signal and call platform_reset
Reboot ==
    /\ pc = "Rebooting"
    /\ pc' = "CheckHeader"
    /\ out' = Append(out, "REBOOT")
    /\ UNCHANGED <<mem, size, written, acc, io, rx, ops, last, erased, img,
                   resets, line, prev>>

\* power loss or external reset at any point: the session and the record of
\* what it did are lost, flash stays
PowerLoss ==
    /\ pc # "CheckHeader"
    /\ resets < MaxResets
    /\ resets' = resets + 1
    /\ line' = <<>>
    /\ pc' = "CheckHeader"
    /\ io' = NoIo
    /\ size' = 0
    /\ written' = 0
    /\ acc' = AllOnes
    /\ out' = <<>>
    /\ rx' = <<>>
    /\ ops' = <<>>
    /\ last' = NoCall
    /\ UNCHANGED <<mem, erased, img, prev>>

Next ==
    \/ BootSelector
    \/ IdleRecvByte
    \/ RecvSizeLine
    \/ ValidateSize
    \/ EraseStep
    \/ EraseDone
    \/ RecvChunk
    \/ WriteStep
    \/ ChunkDone
    \/ Commit
    \/ CommitDone
    \/ Reboot
    \/ PowerLoss

Spec == Init /\ [][Next]_vars

(***************************************************************************)
(* The update sequence performed again over an installed application       *)
(***************************************************************************)
\* the updater is entered although the Boot Selector dispatched: the
\* running application hands control to the Update Session Controller's
\* Idle state; the payload installed so far is remembered
ReenterUpdate ==
    /\ pc = "Dispatch"
    /\ ~prev.known
    /\ img.known
    /\ pc' = "Idle"
    /\ out' = <<"BOOT?">>
    /\ prev' = img
    /\ UNCHANGED <<mem, size, written, acc, io, rx, ops, last, erased, img,
                   resets, line>>

NextTwice ==
    \/ BootSelector
    \/ IdleRecvByte
    \/ RecvSizeLine
    \/ ValidateSize
    \/ EraseStep
    \/ EraseDone
    \/ RecvChunk
    \/ WriteStep
    \/ ChunkDone
    \/ Commit
    \/ CommitDone
    \/ Reboot
    \/ ReenterUpdate

SpecTwice == Init /\ [][NextTwice]_vars

(***************************************************************************)
(* The Integrity Checker called directly                                   *)
(***************************************************************************)
\* the nine ASCII bytes "123456789"
TestVector == <<49, 50, 51, 52, 53, 54, 55, 56, 57>>

CrcBytes == {0, 1, 49, 255}

\* the byte sequences given to the checksum: all of up to MaxData bytes
\* over CrcBytes, and the test vector
CrcInputs ==
    UNION {[1 .. k -> CrcBytes] : k \in 0 .. MaxData} \cup {TestVector}

\* rx is the input, acc the register of the incremental form and written
\* the number of input bytes folded into it; ops lists the chunks taken
InitCrc ==
    /\ rx \in CrcInputs
    /\ pc = "Checksum"
    /\ mem = MakeMem(<<>>)
    /\ img = NoImage
    /\ size = 0
    /\ written = 0
    /\ acc = AllOnes
    /\ io = NoIo
    /\ out = <<>>
    /\ ops = <<>>
    /\ last = NoCall
    /\ erased = FALSE
    /\ resets = 0
    /\ line = <<>>
    /\ prev = NoImage

CrcFrame ==
    UNCHANGED <<mem, pc, size, io, out, rx, erased, img, resets, line, prev>>

\* incremental form: the byte loop of crc32 is resumed from the register
\* for the next chunk of c bytes of the input
CrcAccumulate ==
    /\ CrcFrame
    /\ written < Len(rx)
    /\ \E c \in 1 .. (Len(rx) - written) :
          /\ acc' = crc32_loop(acc, SubSeq(rx, written + 1, written + c))
          /\ written' = written + c
          /\ ops' = Append(ops, [fn |-> "accumulate", addr |-> written,
                                 size |-> c])
    /\ last' = last

\* crc32(data, len), bitwise version, over the whole input
CrcCall ==
    /\ CrcFrame
    /\ last' = [fn |-> "crc32", addr |-> 0, size |-> Len(rx),
                ret |-> crc32(rx), prim |-> FALSE]
    /\ UNCHANGED <<written, acc, ops>>

\* crc32(data, len), nibble-table version, over the whole input
CrcCallNibble ==
    /\ CrcFrame
    /\ last' = [fn |-> "crc32_nibble", addr |-> 0, size |-> Len(rx),
                ret |-> crc32_nibble(rx), prim |-> FALSE]
    /\ UNCHANGED <<written, acc, ops>>

NextCrc ==
    \/ CrcAccumulate
    \/ CrcCall
    \/ CrcCallNibble

SpecCrc == InitCrc /\ [][NextCrc]_vars

(***************************************************************************)
(* The Flash Program Manager called directly, with arbitrary arguments     *)
(***************************************************************************)
\* the byte range [addr, addr + n) lies inside the application partition
InsidePartition(addr, n) == addr >= APP_BASE /\ addr + n <= AppEnd

\* src[i] of a buffer of Len(buf) bytes; reading behind the buffer is
\* undefined and yields some byte junk
SrcAt(buf, junk, i) == IF i < Len(buf) THEN buf[i + 1] ELSE junk

\* platform_flash_write, the whole loop when it stores k bytes
platform_flash_write(m, addr, buf, junk, k) ==
    [a \in DOMAIN m |->
        LET i == (a - addr) % AddrSpace IN
        IF i < k THEN SrcAt(buf, junk, i) ELSE m[a]]

\* platform_flash_erase, the whole loop
platform_flash_erase(m, addr, n) ==
    [a \in DOMAIN m |-> IF (a - addr) % AddrSpace < n THEN 255 ELSE m[a]]

\* the numbers of bytes a write of n bytes at addr may store: all n (the
\* address wraps around), or those up to the end of the RAM when the store
\* behind it faults
StoredCounts(addr, n) ==
    LET top == AppEnd + HeaderSize IN
    IF addr < top /\ addr + n > top THEN {n, top - addr} ELSE {n}

ApiAddrs ==
    {FLASH_BASE, APP_BASE - 1, APP_BASE, APP_BASE + HeaderSize, AppEnd - 1,
     AppEnd, AddrSpace - 1}

ApiSizes ==
    {0, 1, HeaderSize, APP_MAX_SIZE, APP_MAX_SIZE + 1, AddrSpace - APP_BASE,
     AddrSpace - 1}

ApiBytes == {0}

ApiHeaders ==
    {assemble_header(n, reg) : n \in {0, 1}, reg \in {AllOnes}}

\* the session state is not involved in a direct call
ApiFrame ==
    UNCHANGED <<pc, size, written, acc, io, out, rx, erased, img, resets,
                line, prev>>

\* flash_write(addr, data, n)
ApiFlashWrite ==
    /\ ApiFrame
    /\ \E addr \in ApiAddrs, n \in ApiSizes, b \in ApiBytes :
       LET buf == [i \in 1 .. (IF n < MaxChunk THEN n ELSE MaxChunk) |-> b]
           junk == CHOOSE j \in FillBytes : TRUE
       IN
       IF flash_write_rejects(addr, n)
         THEN /\ last' = [fn |-> "flash_write", addr |-> addr, size |-> n,
                          ret |-> -1, prim |-> FALSE]
              /\ mem' = mem
              /\ ops' = ops
         ELSE /\ Len(ops) < MaxCalls
              /\ last' = [fn |-> "flash_write", addr |-> addr, size |-> n,
                          ret |-> PLATFORM_OK, prim |-> TRUE]
              /\ ops' = Append(ops, [fn |-> "write", addr |-> addr,
                                     size |-> n])
              /\ \E k \in StoredCounts(addr, n) :
                    mem' = platform_flash_write(mem, addr, buf, junk, k)

\* flash_erase_app()
ApiFlashErase ==
    LET e == flash_erase_app IN
    /\ ApiFrame
    /\ Len(ops) < MaxCalls
    /\ last' = [fn |-> "flash_erase_app", addr |-> e.addr, size |-> e.size,
                ret |-> PLATFORM_OK, prim |-> TRUE]
    /\ ops' = Append(ops, [fn |-> "erase", addr |-> e.addr, size |-> e.size])
    /\ mem' = platform_flash_erase(mem, e.addr, e.size)

\* flash_write_header(header)
ApiFlashWriteHeader ==
    /\ ApiFrame
    /\ \E h \in ApiHeaders :
       LET w == flash_write_header(h) IN
       /\ Len(ops) < MaxCalls
       /\ last' = [fn |-> "flash_write_header", addr |-> w.addr,
                   size |-> w.size, ret |-> PLATFORM_OK, prim |-> TRUE]
       /\ ops' = Append(ops, [fn |-> "commit", addr |-> w.addr,
                              size |-> w.size])
       /\ mem' = platform_flash_write(mem, w.addr, w.src, 0, w.size)

NextApi ==
    \/ ApiFlashWrite
    \/ ApiFlashErase
    \/ ApiFlashWriteHeader

SpecApi == Init /\ [][NextApi]_vars

(***************************************************************************)
(* Properties                                                              *)
(***************************************************************************)
Range(q) == {q[k] : k \in 1 .. Len(q)}

\* the header is valid by the data model's definition; the checksum is
\* taken with the table-driven crc32
HeaderValid(m) ==
    LET h == ReadHeader(m) IN
    /\ h.magic = BOOT_MAGIC
    /\ ~GtW(h.size, APP_MAX_SIZE)
    /\ h.crc32 = crc32_nibble(Body(m, Nat31(h.size)))

\* C1: Atomicity under interruption.  From the completion of the erase to
\* the invocation of the header commit, whatever body chunks were written
\* and wherever the session is reset or aborted, the header in flash is
\* invalid and the Boot Selector does not dispatch to the application.
C1_AtomicityUnderInterruption ==
    (erased \/ (io.fn = "erase" /\ io.i >= io.size))
        => (~boot_validate(mem) /\ ~HeaderValid(mem) /\ pc # "Dispatch")

\* a reset after erase and a body write, followed by a Boot Selector run
\* that fell through to Idle
C1_Witness ==
    /\ erased
    /\ resets > 0
    /\ pc = "Idle"
    /\ out = <<"BOOT?">>
    /\ mem[APP_BASE + HeaderSize] = 0
    /\ mem[APP_BASE + HeaderSize + 1] = 255

\* the header bytes at the partition base
HeaderRegion(m) == ReadBytes(m, APP_BASE, HeaderSize)

Commits == {k \in 1 .. Len(ops) : ops[k].fn = "commit"}

\* C2: Commit ordering.  In a session the header commit is invoked at most
\* once, only after all size body bytes have been written, and it is the
\* last flash operation of the session; no body write covers a header byte,
\* and the header bytes are programmed by the header commit only (an erase
\* step clears them).
C2_CommitOrdering ==
    /\ [](/\ Cardinality(Commits) <= 1
          /\ \A k \in Commits :
                /\ k = Len(ops)
                /\ written = size
                /\ Body(mem, size) = rx
                /\ Len(rx) = size
          /\ \A k \in 1 .. Len(ops) :
                ops[k].fn = "write" => ops[k].addr >= APP_BASE + HeaderSize)
    /\ [][HeaderRegion(mem') # HeaderRegion(mem) =>
             \/ io.fn = "erase"
             \/ pc = "Committing" /\ last.fn = "flash_write_header"]_vars

\* a session that wrote two chunks and then invoked the commit
C2_Witness ==
    /\ pc = "Committing"
    /\ Len(ops) = 4
    /\ ops[4].fn = "commit"
    /\ io.i > 0

\* C3: The Boot Selector never accepts a half-written image: whenever it
\* dispatches, the partition holds the complete header (all four fields)
\* and the complete body of the payload whose commit was invoked.
C3_NoHalfWrittenImage ==
    pc = "Dispatch" =>
        /\ img.known
        /\ ReadBytes(mem, APP_BASE, HeaderSize + Len(img.body))
              = Image(img.body)

\* C4: Bounds invariant.  A requested size above APP_MAX_SIZE is rejected
\* before any erase or write is invoked, and flash is left unchanged.
C4_BoundsInvariant ==
    [][(pc = "SizeNegotiated" /\ size > APP_MAX_SIZE) =>
          /\ mem' = mem
          /\ ops' = <<>>
          /\ last' \in {last, NoCall}
          /\ io' = NoIo
          /\ pc' \in {"Idle", "CheckHeader"}]_vars

\* a session rejected for its size, back in Idle with the error emitted
C4_Witness ==
    /\ pc = "Idle"
    /\ size = APP_MAX_SIZE + 1
    /\ out = <<"OK", "ERR", "BOOT?">>
    /\ ops = <<>>

\* C5: Partition-overlap invariant.  flash_write returns -1 for every
\* address and length whose byte range is not fully inside the application
\* partition.
C5_PartitionOverlap ==
    (last.fn = "flash_write" /\ ~InsidePartition(last.addr, last.size))
        => last.ret = -1

\* C6: No byte of the bootloader region is ever modified, and every call
\* that reaches a platform primitive has its range inside the partition.
C6_BootloaderUntouched ==
    /\ \A a \in FLASH_BASE .. (FLASH_BASE + FLASH_SIZE - 1) :
          mem[a] = BootCode[a]
    /\ last.prim => InsidePartition(last.addr, last.size)

ExpectedOutput == <<"OK", "READY", "CRC?", "OK", "REBOOT">>

IsPrefix(p, q) == Len(p) <= Len(q) /\ SubSeq(q, 1, Len(p)) = p

\* C7: End-to-end success.  A session whose size was accepted emits OK,
\* READY, CRC?, OK, REBOOT in this order and nothing else, and once REBOOT
\* is out the header holds BOOT_MAGIC, the size and the checksum of the
\* payload, followed by the payload.
C7_EndToEnd ==
    /\ ("READY" \in Range(out) \/ pc = "Erasing")
          => IsPrefix(out, ExpectedOutput)
    /\ out = ExpectedOutput =>
          LET h == ReadHeader(mem) IN
          /\ h.magic = BOOT_MAGIC
          /\ h.size = ToWord(Len(rx))
          /\ h.crc32 = crc32_nibble(rx)
          /\ Body(mem, Len(rx)) = rx

\* C8: Boundary sizes.  A requested size of APP_MAX_SIZE is accepted and
\* runs through erase, the receipt of all its bytes and the commit without
\* a rejected write; a requested size of APP_MAX_SIZE + 1 is rejected.
C8_BoundarySizes ==
    /\ (size = APP_MAX_SIZE /\ "OK" \in Range(out) /\ Len(out) > 1)
          => IsPrefix(out, ExpectedOutput)
    /\ size = APP_MAX_SIZE + 1
          => pc \in {"SizeNegotiated", "Idle", "CheckHeader",
                     "UpdateRequested"}

\* C9: Boot Selector decision.  A Boot Selector run dispatches to the
\* application exactly if the header is valid, and falls through to Idle
\* otherwise; there is no third outcome.
C9_BootSelectorDecision ==
    [][pc = "CheckHeader" =>
          /\ pc' \in {"Dispatch", "Idle"}
          /\ (pc' = "Dispatch") <=> HeaderValid(mem)
          /\ mem' = mem]_vars

\* the Boot Selector dispatched to an image committed by a session
C9_Witness ==
    /\ pc = "Dispatch"
    /\ out = ExpectedOutput
    /\ Len(rx) > 1

\* C10: A committed image is bootable.  When a session reaches Rebooting
\* the checksum it accumulated is the one the Boot Selector computes over
\* the body in flash, and the Boot Selector run after the reset dispatches.
C10_CommittedImageBootable ==
    /\ [](pc = "Rebooting" =>
             /\ NotW(acc) = crc32(Body(mem, size))
             /\ boot_validate(mem))
    /\ [][(pc = "CheckHeader" /\ out = ExpectedOutput)
             => pc' = "Dispatch"]_vars

\* after the reset of a completed session the application was dispatched
C10_Witness ==
    /\ pc = "Dispatch"
    /\ out = ExpectedOutput
    /\ resets = 0
    /\ Len(rx) = APP_MAX_SIZE - HeaderSize

\* C11: Flash failure aborts the update.  When flash_erase_app or the
\* flash_write of a chunk reports failure, the session aborts at once to
\* Idle with an error line; flash is not touched by the failing call nor
\* afterwards, no commit is or was invoked, the device does nothing more
\* until the host sends a byte or the device is reset, and the header left
\* in flash is one the Boot Selector rejects.
C11_FlashFailureAborts ==
    /\ [](last.ret # PLATFORM_OK =>
             /\ pc \in {"Idle", "UpdateRequested", "SizeNegotiated"}
             /\ io = NoIo
             /\ Commits = {}
             /\ ~boot_validate(mem))
    /\ [][(last'.ret # PLATFORM_OK /\ last' # last) =>
             /\ pc' = "Idle"
             /\ out' = out \o <<"ERR", "BOOT?">>
             /\ mem' = mem
             /\ ops' = ops]_vars
    /\ [][(last.ret # PLATFORM_OK /\ pc = "Idle") =>
             /\ pc' \in {"UpdateRequested", "CheckHeader"}
             /\ mem' = mem
             /\ last' \in {last, NoCall}]_vars

\* a session aborted by a failed chunk write after the erase and at least
\* one chunk that was written
C11_Witness ==
    /\ pc = "Idle"
    /\ last.fn = "flash_write"
    /\ last.ret = -1
    /\ Len(ops) >= 2
    /\ out = <<"OK", "READY", "ERR", "BOOT?">>

\* the size field of a size-request line is empty, holds a non-digit, or is
\* overlong
Malformed(l) ==
    LET p == Len(SendPrefix) IN
    \/ Len(l) <= p
    \/ \E i \in (p + 1) .. Len(l) : ~IsDigit(l[i])
    \/ Len(l) - p > MaxDigits

\* C12: Size-line framing.  A size-request line whose size field is empty,
\* holds a non-digit or is overlong aborts the session to Idle with an
\* error line and the prompt, without any erase or write of flash; every
\* other line is taken as a size.  After the abort the device does nothing
\* until the host sends the activation byte again (or the device is reset).
C12_SizeLineFraming ==
    /\ [][(pc = "UpdateRequested" /\ pc' \notin {pc, "CheckHeader"}) =>
             IF Malformed(line')
               THEN /\ pc' = "Idle"
                    /\ out' = out \o <<"ERR", "BOOT?">>
                    /\ mem' = mem
                    /\ ops' = <<>>
                    /\ last' = last
                    /\ io' = NoIo
               ELSE pc' = "SizeNegotiated"]_vars
    /\ [][(pc = "Idle" /\ Malformed(line)) =>
             /\ pc' \in {"UpdateRequested", "CheckHeader"}
             /\ mem' = mem
             /\ ops' = ops
             /\ io' = NoIo]_vars

\* a session aborted for a non-digit in the size field
C12_Witness ==
    /\ pc = "Idle"
    /\ line = SendPrefix \o <<"1", "x">>
    /\ out = <<"OK", "ERR", "BOOT?">>
    /\ ops = <<>>

\* every byte of the application partition is in the erased state
PartitionErased(m) == \A a \in APP_BASE .. (AppEnd - 1) : m[a] = 255

\* C13: READY is emitted only after erase.  READY is emitted by the step
\* in which platform_flash_erase, called by flash_erase_app for this
\* session over the whole partition, has returned, with the partition
\* erased; and no payload byte is read or stored to flash in a session that
\* has not emitted READY.
C13_ReadyOnlyAfterErase ==
    /\ [][("READY" \in Range(out') /\ "READY" \notin Range(out)) =>
             /\ io.fn = "erase"
             /\ io.addr = APP_BASE
             /\ io.size = APP_MAX_SIZE
             /\ io.i >= io.size
             /\ ops = <<[fn |-> "erase", addr |-> APP_BASE,
                         size |-> APP_MAX_SIZE]>>
             /\ PartitionErased(mem)
             /\ rx = <<>>]_vars
    /\ [][(rx' # rx /\ rx' # <<>>) => "READY" \in Range(out)]_vars
    /\ [][(mem' # mem /\ io.fn = "write") => "READY" \in Range(out)]_vars

\* READY was emitted in a session after a reset, and the first payload
\* byte was stored since
C13_Witness ==
    /\ out = <<"OK", "READY">>
    /\ io.fn = "write"
    /\ io.i = 1
    /\ resets > 0
    /\ rx # <<>>

\* C14: Zero-size update.  A requested size of zero is accepted: the
\* session goes from SizeNegotiated to the erase and from Receiving
\* straight to the commit, reads and writes no payload byte, and when it
\* reboots the header holds BOOT_MAGIC, size 0 and the checksum of the
\* empty sequence (0x00000000), behind which the partition is erased.
C14_ZeroSizeUpdate ==
    /\ [][(pc = "SizeNegotiated" /\ size = 0 /\ pc' # "CheckHeader") =>
             pc' = "Erasing"]_vars
    /\ [][(pc = "Receiving" /\ size = 0 /\ pc' # "CheckHeader") =>
             /\ pc' = "Committing"
             /\ rx' = <<>>
             /\ mem' = mem]_vars
    /\ []((size = 0 /\ "REBOOT" \in Range(out)) =>
             LET h == ReadHeader(mem) IN
             /\ out = ExpectedOutput
             /\ h.magic = BOOT_MAGIC
             /\ h.size = <<0, 0>>
             /\ h.crc32 = <<0, 0>>
             /\ h.crc32 = crc32(<<>>)
             /\ rx = <<>>
             /\ ops = <<[fn |-> "erase", addr |-> APP_BASE,
                         size |-> APP_MAX_SIZE],
                        [fn |-> "commit", addr |-> APP_BASE,
                         size |-> HeaderSize]>>
             /\ \A a \in (APP_BASE + HeaderSize) .. (AppEnd - 1) :
                   mem[a] = 255)

\* a zero-size session has committed its header and called platform_reset
C14_Witness ==
    /\ size = 0
    /\ out = ExpectedOutput
    /\ pc = "CheckHeader"
    /\ line = SendLine(0)
    /\ ReadHeader(mem).size = <<0, 0>>

\* the partition holds exactly the header and body of payload p, followed
\* by erased bytes
PartitionIs(m, p) ==
    ReadBytes(m, APP_BASE, APP_MAX_SIZE) =
        Image(p) \o [k \in 1 .. (APP_MAX_SIZE - HeaderSize - Len(p)) |-> 255]

\* C15: Idempotent re-update.  When the update sequence has been performed
\* with payload P1 and is performed again with payload P2, the partition
\* holds exactly the header and body of P2 followed by erased bytes; no
\* byte of P1's header or body remains.
C15_IdempotentReupdate ==
    (prev.known /\ "REBOOT" \in Range(out)) =>
        /\ out = ExpectedOutput
        /\ PartitionIs(mem, rx)

\* a second update with a payload that differs from the first and is
\* shorter than it
C15_Witness ==
    /\ prev.known
    /\ out = ExpectedOutput
    /\ pc = "Dispatch"
    /\ rx # prev.body
    /\ Len(rx) < Len(prev.body)
    /\ prev.body # InstalledPayload

\* C16: The nibble-table crc32 and the bitwise crc32 return the same value
\* for every byte sequence, the empty one included.
C16_NibbleEqualsBitwise ==
    /\ last.fn = "crc32_nibble" => last.ret = crc32(rx)
    /\ last.fn = "crc32" => last.ret = crc32_nibble(rx)

\* the nibble-table version was called on a sequence of MaxData bytes
C16_Witness ==
    /\ last.fn = "crc32_nibble"
    /\ Len(rx) = MaxData
    /\ rx[1] # rx[MaxData]

C18_ChecksumConformance ==
    (rx = TestVector /\ last.fn \in {"crc32", "crc32_nibble"})
        => last.ret = <<52212, 14630>>

\* the bitwise version was called on the test vector
C18_Witness ==
    /\ rx = TestVector
    /\ last.fn = "crc32"
    /\ last.size = 9

\* C19: Update-session invariant.  In every state of Receiving, written <=
\* size <= APP_MAX_SIZE; the bytes received are the written ones and those
\* of the chunk being written; the first written body bytes in flash are
\* the first written bytes received, in order; the accumulator is the
\* checksum register over exactly those bytes; and the 16 header bytes at
\* the partition base are erased.
C19_ReceivingInvariant ==
    pc = "Receiving" =>
        /\ written <= size
        /\ size <= APP_MAX_SIZE
        /\ Len(rx) = written + (IF io.fn = "write" THEN io.size ELSE 0)
        /\ Body(mem, written) = SubSeq(rx, 1, written)
        /\ acc = crc32_nibble_loop(AllOnes, SubSeq(rx, 1, written))
        /\ HeaderRegion(mem) = [k \in 1 .. HeaderSize |-> 255]

\* two bytes are written and folded, and the first byte of the next chunk
\* of two is in flash
C19_Witness ==
    /\ pc = "Receiving"
    /\ written = 2
    /\ io.fn = "write"
    /\ io.size = 2
    /\ io.i = 1

\* C20: flash_write frame and result.  When the bounds check (addr below
\* APP_BASE, or addr + size, taken in 32 bits, above APP_BASE +
\* APP_MAX_SIZE) fails, flash_write returns -1, the write primitive is not
\* invoked and flash is unchanged.  When it passes, the primitive is
\* invoked exactly once with the same address and length, its result is
\* returned, and the only bytes that change are bytes of the range of size
\* bytes from addr on (addresses taken in 32 bits), which receive the data.
C20_FlashWriteFrame ==
    [][(last'.fn = "flash_write" /\ <<last', ops', mem'>> # <<last, ops, mem>>)
          =>
          IF \/ last'.addr < APP_BASE
             \/ (last'.addr + last'.size) % AddrSpace > APP_BASE + APP_MAX_SIZE
            THEN /\ last'.ret = -1
                 /\ ~last'.prim
                 /\ mem' = mem
                 /\ ops' = ops
            ELSE /\ last'.ret = PLATFORM_OK
                 /\ last'.prim
                 /\ ops' = Append(ops, [fn |-> "write", addr |-> last'.addr,
                                        size |-> last'.size])
                 /\ \A a \in DOMAIN mem :
                       mem'[a] # mem[a] =>
                          LET k == (a - last'.addr) % AddrSpace IN
                          /\ k < last'.size
                          /\ k < MaxChunk => mem'[a] \in ApiBytes]_vars

\* flash_write stored one byte behind the header of an erased partition
C20_Witness ==
    /\ last.fn = "flash_write"
    /\ last.prim
    /\ last.addr = APP_BASE + HeaderSize
    /\ last.size = 1
    /\ Len(ops) = 1
    /\ mem[APP_BASE] = 255
    /\ mem[APP_BASE + HeaderSize] = 0

\* C21: Whole-partition erase.  flash_erase_app always passes the whole
\* partition to platform_flash_erase, whatever the negotiated size; no
\* iteration of the erase changes a byte outside [APP_BASE, APP_BASE +
\* APP_MAX_SIZE); and when the erase has completed every byte of the
\* partition, the 16 header bytes included, is 0xFF.
C21_WholePartitionErase ==
    /\ [](io.fn = "erase" =>
             /\ io.addr = APP_BASE
             /\ io.size = APP_MAX_SIZE
             /\ io.i >= io.size =>
                   /\ PartitionErased(mem)
                   /\ HeaderRegion(mem) = [k \in 1 .. HeaderSize |-> 255])
    /\ [][io.fn = "erase" =>
             \A a \in Mem \ (APP_BASE .. (AppEnd - 1)) : mem'[a] = mem[a]]_vars

\* the erase of a zero-size session has completed over a partition that
\* held the body and a torn header of an earlier payload
C21_Witness ==
    /\ pc = "Erasing"
    /\ io.fn = "erase"
    /\ io.i >= io.size
    /\ size = 0
    /\ resets = 1
    /\ img.known
    /\ img.body # <<>>

\* the state that follows a protocol state in the linear state machine;
\* Rebooting is left by the system reset
NextState(st) ==
    CASE st = "Idle" -> "UpdateRequested"
      [] st = "UpdateRequested" -> "SizeNegotiated"
      [] st = "SizeNegotiated" -> "Erasing"
      [] st = "Erasing" -> "Receiving"
      [] st = "Receiving" -> "Committing"
      [] st = "Committing" -> "Rebooting"
      [] st = "Rebooting" -> "CheckHeader"

SessionStates ==
    {"Idle", "UpdateRequested", "SizeNegotiated", "Erasing", "Receiving",
     "Committing", "Rebooting"}

\* C22: Session termination.  As long as the host delivers a well-formed
\* size line with a size of at most APP_MAX_SIZE and the payload, and no
\* primitive fails (none does on this board), the controller's state
\* changes only to the next state of Idle, UpdateRequested, SizeNegotiated,
\* Erasing, Receiving, Committing, Rebooting, and from Rebooting to the
\* reset; an external reset apart, it never returns to an earlier state.
\* A state that waits for the host changes only by reading a byte.
C22_SessionTermination ==
    /\ [][(/\ pc \in SessionStates
           /\ pc' # pc
           /\ resets' = resets
           /\ ~Malformed(line')
           /\ size' <= APP_MAX_SIZE) => pc' = NextState(pc)]_vars
    /\ [][(pc = "UpdateRequested" /\ resets' = resets) =>
             pc' \in {"SizeNegotiated", "Idle"} /\ mem' = mem]_vars
    /\ [][(/\ pc = "Receiving"
           /\ io.fn = "none"
           /\ written < size
           /\ resets' = resets) => rx' # rx]_vars

====
